---------------------------- MODULE Spec2Model ----------------------------
(***************************************************************************)
(* Model of the function-counter editor extension (src/src/extension.ts):  *)
(* the regular-expression analyzer analyzeCode and the handlers that       *)
(* activate() wires to the editor's events and commands.                   *)
(*                                                                         *)
(* A text is a sequence of one-character strings.  A regular expression is *)
(* a sequence of nodes interpreted by a backtracking matcher that follows  *)
(* the priorities of the ECMAScript matcher (greedy quantifiers, ordered   *)
(* alternatives, leftmost start).  Positions are 1-based: position i is    *)
(* the i-th character, Len(text)+1 is the end of the text.                 *)
(*                                                                         *)
(* src/src/extension.ts holds two copies of the extension; the model is of *)
(* the first one (lines 1-141), the one that registers the two commands.   *)
(* The second copy (lines 145-246) differs in analyzeCode only by the      *)
(* extra tag 'php' in the java/csharp/cpp/c case, so 'php' is left out of  *)
(* the tags the model draws.                                               *)
(***************************************************************************)
EXTENDS Integers, Sequences, FiniteSets, TLC

VARIABLES
    text,           \* analyzer run: the text argument
    language,       \* analyzer run: the language argument
    result,         \* the value the most recent analyzeCode call returned
    called,         \* analyzer run: whether the call has been made
    returned,       \* call history: the calls made so far and what each returned
    activated,      \* editor: activate() has run
    hasEditor,      \* editor: vscode.window.activeTextEditor is defined
    docText,        \* editor: activeTextEditor.document.getText()
    docLang,        \* editor: activeTextEditor.document.languageId
    statusBarText,  \* editor: statusBarItem.text
    log,            \* editor: what the handler of the last trigger did, in order
    lastTrigger     \* editor: the trigger handled last

vars == <<text, language, result, called, returned, activated, hasEditor,
          docText, docLang, statusBarText, log, lastTrigger>>

analyzerVars == <<text, language, called>>
editorVars == <<activated, hasEditor, docText, docLang, statusBarText, log,
                lastTrigger>>

----------------------------------------------------------------------------
(* Bounds of the model. *)

\* Longest text of the analyzer run, in fragments.
MaxFrags == 4
\* Longest document of the editor run, in characters.
MaxDocLen == 20
\* Most analyzeCode calls recorded in the call history.
MaxCalls == 3

----------------------------------------------------------------------------
(* Character classes of the ECMAScript regular expressions. *)

\* \w is [A-Za-z0-9_].
WordChars ==
    {"a", "b", "c", "d", "e", "f", "g", "h", "i", "j", "k", "l", "m", "n",
     "o", "p", "q", "r", "s", "t", "u", "v", "w", "x", "y", "z",
     "A", "B", "C", "D", "E", "F", "G", "H", "I", "J", "K", "L", "M", "N",
     "O", "P", "Q", "R", "S", "T", "U", "V", "W", "X", "Y", "Z",
     "0", "1", "2", "3", "4", "5", "6", "7", "8", "9", "_"}

\* \s, restricted to the white space an ASCII text holds.
SpaceChars == {" ", "\t", "\n", "\r", "\f"}

\* A class is a set of characters, or the complement of one ([^...]).
WordClass == [neg |-> FALSE, set |-> WordChars]
SpaceClass == [neg |-> FALSE, set |-> SpaceChars]
NotColonClass == [neg |-> TRUE, set |-> {":"}]
NotRParenClass == [neg |-> TRUE, set |-> {")"}]

InClass(c, cls) == (c \in cls.set) # cls.neg

(* Nodes of a regular expression. *)
WordBoundary == [t |-> "b"]                             \* \b
Lit(s) == [t |-> "lit", s |-> s]                        \* literal characters
Alt(ss) == [t |-> "alt", alts |-> ss]                   \* (s1|s2), in order
Plus(cls) == [t |-> "rep", cls |-> cls, min |-> 1]      \* cls+ , greedy
Star(cls) == [t |-> "rep", cls |-> cls, min |-> 0]      \* cls* , greedy

(* The keywords of the patterns, as texts. *)
KwFunction == <<"f", "u", "n", "c", "t", "i", "o", "n">>
KwIf == <<"i", "f">>
KwFor == <<"f", "o", "r">>
KwWhile == <<"w", "h", "i", "l", "e">>
KwDef == <<"d", "e", "f">>

(* The nine regular-expression literals of analyzeCode. *)
\* /\bfunction\s+\w+\s*\(/g
JsFunctionPattern ==
    <<WordBoundary, Lit(KwFunction), Plus(SpaceClass), Plus(WordClass),
      Star(SpaceClass), Lit(<<"(">>)>>
\* Mutant: /\bif\(/g, no white space allowed before the parenthesis.
JsIfPatternNoSpace == <<WordBoundary, Lit(KwIf), Lit(<<"(">>)>>
\* /\bif\s*\(/g
JsIfPattern == <<WordBoundary, Lit(KwIf), Star(SpaceClass), Lit(<<"(">>)>>
\* /\b(for|while)\s*\(/g
JsLoopPattern ==
    <<WordBoundary, Alt(<<KwFor, KwWhile>>), Star(SpaceClass), Lit(<<"(">>)>>
\* /\bdef\s+\w+\s*\(/g
PyFunctionPattern ==
    <<WordBoundary, Lit(KwDef), Plus(SpaceClass), Plus(WordClass),
      Star(SpaceClass), Lit(<<"(">>)>>
\* Mutant: /\bif\s*[^:]*:/g, the white space after if optional.
PyIfPatternOptionalSpace ==
    <<WordBoundary, Lit(KwIf), Star(SpaceClass), Star(NotColonClass),
      Lit(<<":">>)>>
\* /\bif\s+[^:]*:/g
PyIfPattern ==
    <<WordBoundary, Lit(KwIf), Plus(SpaceClass), Star(NotColonClass),
      Lit(<<":">>)>>
\* /\b(for|while)\s+[^:]*:/g
PyLoopPattern ==
    <<WordBoundary, Alt(<<KwFor, KwWhile>>), Plus(SpaceClass),
      Star(NotColonClass), Lit(<<":">>)>>
\* Mutant: /\b\w+\s+\w+\s*\([^)]*\)\{/g, the brace right after the
\* parenthesis.
CFunctionPatternBraceAdjacent ==
    <<WordBoundary, Plus(WordClass), Plus(SpaceClass), Plus(WordClass),
      Star(SpaceClass), Lit(<<"(">>), Star(NotRParenClass), Lit(<<")">>),
      Lit(<<"{">>)>>
\* /\b\w+\s+\w+\s*\([^)]*\)\s*\{/g
CFunctionPattern ==
    <<WordBoundary, Plus(WordClass), Plus(SpaceClass), Plus(WordClass),
      Star(SpaceClass), Lit(<<"(">>), Star(NotRParenClass), Lit(<<")">>),
      Star(SpaceClass), Lit(<<"{">>)>>
\* /\bif\s*\(/g
CIfPattern == <<WordBoundary, Lit(KwIf), Star(SpaceClass), Lit(<<"(">>)>>
\* /\b(for|while)\s*\(/g
CLoopPattern ==
    <<WordBoundary, Alt(<<KwFor, KwWhile>>), Star(SpaceClass), Lit(<<"(">>)>>

----------------------------------------------------------------------------
(* The backtracking matcher. *)

IsWordAt(s, i) == i >= 1 /\ i <= Len(s) /\ s[i] \in WordChars

\* \b holds between positions i-1 and i when exactly one side is a word
\* character.
AtWordBoundary(s, i) == IsWordAt(s, i - 1) # IsWordAt(s, i)

\* The literal w stands in s at position i.
LitAt(s, i, w) ==
    /\ i + Len(w) - 1 <= Len(s)
    /\ \A k \in 1..Len(w) : s[i + k - 1] = w[k]

\* Length of the longest run of characters of cls in s from position i.
RECURSIVE RunLen(_, _, _)
RunLen(s, i, cls) ==
    IF i <= Len(s) /\ InClass(s[i], cls) THEN 1 + RunLen(s, i + 1, cls) ELSE 0

\* MatchAt(pat, k, s, i): nodes k.. of pat matched against s from position i.
\* The result is the position after the match the matcher finds first, or 0
\* when there is none.  A greedy quantifier tries its longest run first and
\* gives characters back one at a time; alternatives are tried in order.
RECURSIVE MatchAt(_, _, _, _)
RECURSIVE TryRep(_, _, _, _, _)
RECURSIVE TryAlt(_, _, _, _, _)
MatchAt(pat, k, s, i) ==
    IF k > Len(pat) THEN i
    ELSE LET node == pat[k] IN
         CASE node.t = "b" ->
                IF AtWordBoundary(s, i) THEN MatchAt(pat, k + 1, s, i) ELSE 0
           [] node.t = "lit" ->
                IF LitAt(s, i, node.s)
                THEN MatchAt(pat, k + 1, s, i + Len(node.s)) ELSE 0
           [] node.t = "alt" -> TryAlt(pat, k, s, i, 1)
           [] node.t = "rep" -> TryRep(pat, k, s, i, RunLen(s, i, node.cls))
TryRep(pat, k, s, i, n) ==
    IF n < pat[k].min THEN 0
    ELSE LET e == MatchAt(pat, k + 1, s, i + n) IN
         IF e # 0 THEN e ELSE TryRep(pat, k, s, i, n - 1)
TryAlt(pat, k, s, i, a) ==
    IF a > Len(pat[k].alts) THEN 0
    ELSE LET w == pat[k].alts[a]
             e == IF LitAt(s, i, w) THEN MatchAt(pat, k + 1, s, i + Len(w))
                  ELSE 0
         IN IF e # 0 THEN e ELSE TryAlt(pat, k, s, i, a + 1)

\* RegExp exec from lastIndex: the leftmost start at or after lastIndex with
\* a match, as <<start, end>>, or <<0, 0>> when there is none.
RECURSIVE Exec(_, _, _)
Exec(pat, s, lastIndex) ==
    IF lastIndex > Len(s) + 1 THEN <<0, 0>>
    ELSE LET e == MatchAt(pat, 1, s, lastIndex) IN
         IF e # 0 THEN <<lastIndex, e>> ELSE Exec(pat, s, lastIndex + 1)

\* String.prototype.match with a /g expression: exec is repeated, each
\* search starting where the previous match ended (one further after an
\* empty match), until it fails.  The value is the sequence of <<start, end>>
\* of the matches.
RECURSIVE MatchAllFrom(_, _, _)
MatchAllFrom(pat, s, lastIndex) ==
    LET m == Exec(pat, s, lastIndex) IN
    IF m[1] = 0 THEN <<>>
    ELSE <<m>> \o MatchAllFrom(pat, s, IF m[2] = m[1] THEN m[2] + 1 ELSE m[2])

\* (text.match(re) || []).length: match starts at lastIndex 0 (position 1)
\* and gives null, replaced by [], when nothing matches.
CountMatches(s, pat) == Len(MatchAllFrom(pat, s, 1))

----------------------------------------------------------------------------
(* analyzeCode *)

\* Mutant: the counters declared outside the function and never reset, so
\* that a call starts from what the previous call left.
LeftoverCounts == result

\* let functionCount = 0; let ifCount = 0; let loopCount = 0;
\* The counters are locals, set to zero on every call.
InitialCounts == [functions |-> 0, ifs |-> 0, loops |-> 0]

\* Mutant: the tag compared without regard to case.
CaseMatchesIgnoringCase(lang, label) ==
    LET LowerCase(tag) ==
            CASE tag = "JavaScript" -> "javascript"
              [] tag = "Python" -> "python"
              [] OTHER -> tag
    IN LowerCase(lang) = LowerCase(label)

\* switch (language) compares with ===: the tag and the case label are the
\* same string, character for character.
CaseMatches(lang, label) == lang = label

analyzeCode(t, lang) ==
    LET c0 == InitialCounts IN
    CASE \E l \in {"javascript", "typescript"} : CaseMatches(lang, l) ->
            [functions |-> CountMatches(t, JsFunctionPattern),
             ifs |-> CountMatches(t, JsIfPattern),
             loops |-> CountMatches(t, JsLoopPattern)]
      [] CaseMatches(lang, "python") ->
            [functions |-> CountMatches(t, PyFunctionPattern),
             ifs |-> CountMatches(t, PyIfPattern),
             loops |-> CountMatches(t, PyLoopPattern)]
      [] \E l \in {"java", "csharp", "cpp", "c"} : CaseMatches(lang, l) ->
            [functions |-> CountMatches(t, CFunctionPattern),
             ifs |-> CountMatches(t, CIfPattern),
             loops |-> CountMatches(t, CLoopPattern)]
      [] OTHER -> c0

----------------------------------------------------------------------------
(* Inputs of the analyzer run. *)

ScenarioJs ==
    <<"f", "u", "n", "c", "t", "i", "o", "n", " ", "t", "e", "s", "t", "(",
      ")", " ", "{", " ", "i", "f", " ", "(", "t", "r", "u", "e", ")", " ",
      "{", " ", "}", " ", "}">>
ScenarioPy ==
    <<"d", "e", "f", " ", "f", "o", "o", "(", ")", ":", "\n", " ", " ", " ",
      " ", "i", "f", " ", "x", ":", "\n", " ", " ", " ", " ", " ", " ", " ",
      " ", "p", "a", "s", "s">>
ScenarioJava ==
    <<"f", "o", "r", " ", "(", "i", "=", "0", ";", "i", "<", "1", "0", ";",
      "i", "+", "+", ")", " ", "{", " ", "w", "h", "i", "l", "e", "(", "x",
      ")", " ", "{", "}", " ", "}">>
ScenarioCpp ==
    <<"i", "n", "t", " ", "a", "d", "d", "(", "i", "n", "t", " ", "a", ",",
      " ", "i", "n", "t", " ", "b", ")", " ", "{", " ", "r", "e", "t", "u",
      "r", "n", " ", "a", "+", "b", ";", " ", "}">>
ScenarioRuby == <<"s", "o", "m", "e", " ", "t", "e", "x", "t">>

Scenarios == {ScenarioJs, ScenarioPy, ScenarioJava, ScenarioCpp, ScenarioRuby}

RecognizedTags ==
    {"javascript", "typescript", "python", "java", "csharp", "cpp", "c"}
CurlyTags == {"javascript", "typescript", "java", "csharp", "cpp", "c"}
Tags == RecognizedTags \cup {"ruby", "JavaScript", "Python"}

\* Every concatenation of at most n fragments of F.
RECURSIVE TextsOver(_, _)
TextsOver(F, n) ==
    IF n = 0 THEN {<<>>}
    ELSE LET S == TextsOver(F, n - 1) IN S \cup {s \o f : s \in S, f \in F}

\* Fragments of function headers, of control statements in the curly-brace
\* style and of statements in the indentation style.
HeaderFrags ==
    {KwFunction \o <<" ", "f">>, <<"(">>, <<")">>, <<"{">>, <<" ">>}
ControlFrags == {KwIf, KwFor, KwWhile, <<" ">>, <<"(">>}
IndentFrags == {KwIf, <<" ">>, <<"x">>, <<":">>, <<"(">>}
DefFrags == {KwDef, <<" ", "f">>, <<"(">>, KwFor \o <<" ", "x">>, <<":">>}

\* Texts with several constructs each.
Samples ==
    {<<"i", "n", "t", " ", "f", "(", ")", "{", "}", " ", "i", "n", "t", " ",
       "g", "(", "a", ")", " ", "{">>,
     <<"i", "f", " ", "x", ":", " ", "e", "l", "i", "f", "(", "y", ")", ":",
       " ", "i", "f", "(", "z", ")", ":">>}

InputTexts ==
    TextsOver(HeaderFrags, MaxFrags) \cup TextsOver(ControlFrags, MaxFrags)
    \cup TextsOver(IndentFrags, MaxFrags) \cup TextsOver(DefFrags, MaxFrags)
    \cup Scenarios \cup Samples

----------------------------------------------------------------------------
(* The analyzer run: one call of analyzeCode on a chosen input. *)

InitAnalyze ==
    /\ text \in InputTexts
    /\ language \in Tags
    /\ result = [functions |-> 0, ifs |-> 0, loops |-> 0]
    /\ called = FALSE
    /\ returned = <<>>
    /\ activated = FALSE
    /\ hasEditor = FALSE
    /\ docText = <<>>
    /\ docLang = ""
    /\ statusBarText = ""
    /\ log = <<>>
    /\ lastTrigger = "none"

Analyze ==
    /\ ~called
    /\ result' = analyzeCode(text, language)
    /\ called' = TRUE
    /\ UNCHANGED <<text, language, returned>>
    /\ UNCHANGED editorVars

NextAnalyze == Analyze

SpecAnalyze == InitAnalyze /\ [][NextAnalyze]_vars

----------------------------------------------------------------------------
(* The call history: analyzeCode called again and again. *)

CallTexts ==
    {<<>>, ScenarioRuby, KwFunction \o <<" ", "f", "(", ")", "{">>,
     <<"i", "f", " ", "(", "x", ")", ":">>}
CallTags == {"javascript", "python", "c", "ruby"}

InitCalls ==
    /\ returned = <<>>
    /\ result = [functions |-> 0, ifs |-> 0, loops |-> 0]
    /\ text = <<>>
    /\ language = ""
    /\ called = FALSE
    /\ activated = FALSE
    /\ hasEditor = FALSE
    /\ docText = <<>>
    /\ docLang = ""
    /\ statusBarText = ""
    /\ log = <<>>
    /\ lastTrigger = "none"

AnalyzeCall ==
    /\ Len(returned) < MaxCalls
    /\ \E t \in CallTexts, l \in CallTags :
         LET stats == analyzeCode(t, l) IN
         /\ result' = stats
         /\ returned' =
                Append(returned, [text |-> t, language |-> l, stats |-> stats])
    /\ UNCHANGED analyzerVars
    /\ UNCHANGED editorVars

NextCalls == AnalyzeCall

SpecCalls == InitCalls /\ [][NextCalls]_vars

----------------------------------------------------------------------------
(* The editor: activate() and the handlers it registers.                   *)
(* The Cyrillic labels of the status bar are written in Latin letters:     *)
(* "Funktsii" and "Tsikly" are the labels of the functions and loops       *)
(* counts, NoFileText is the placeholder of line 110.                      *)

\* statusBarItem.text = "..." when there is no active editor (line 110).
NoFileText == "Statistika: net aktivnogo faila"
\* showInformationMessage('No active code file found') (line 71).
NoFileMessage == "No active code file found"
\* showInformationMessage('Code statistics refreshed!') (line 127).
RefreshedMessage == "Code statistics refreshed!"

\* The template literal of line 118.
StatusLine(lang, stats) ==
    "[" \o lang \o "] Funktsii: " \o ToString(stats.functions)
        \o " | If: " \o ToString(stats.ifs)
        \o " | Tsikly: " \o ToString(stats.loops)

\* Mutant: the ifs and loops counts in each other's place.
StatsMessageSwapped(stats) ==
    "Code Statistics: " \o ToString(stats.functions) \o " functions, "
        \o ToString(stats.loops) \o " if statements, "
        \o ToString(stats.ifs) \o " loops"

\* The template literal of line 80.
StatsMessage(stats) ==
    "Code Statistics: " \o ToString(stats.functions) \o " functions, "
        \o ToString(stats.ifs) \o " if statements, "
        \o ToString(stats.loops) \o " loops"

(* What a handler does, in order, as entries of the log. *)
Called(t, lang) == [op |-> "analyzeCode", arg |-> <<t, lang>>]
SetStatus(line) == [op |-> "statusBar", arg |-> line]
Info(msg) == [op |-> "info", arg |-> msg]

\* Mutant: without an editor updateStatusBar returns before it writes.
updateStatusBarSkipsNoEditor(ed, t, lang) ==
    IF ~ed
    THEN [text |-> statusBarText, ops |-> <<>>]
    ELSE LET stats == analyzeCode(t, lang)
             line == StatusLine(lang, stats)
         IN [text |-> line, ops |-> <<Called(t, lang), SetStatus(line)>>]

\* Mutant: analyzeCode called anew for each of the three counts.
updateStatusBarRecounts(ed, t, lang) ==
    IF ~ed
    THEN [text |-> NoFileText, ops |-> <<SetStatus(NoFileText)>>]
    ELSE LET line ==
                 StatusLine(lang,
                     [functions |-> analyzeCode(t, lang).functions,
                      ifs |-> analyzeCode(t, lang).ifs,
                      loops |-> analyzeCode(t, lang).loops])
         IN [text |-> line,
             ops |-> <<Called(t, lang), Called(t, lang), Called(t, lang),
                       SetStatus(line)>>]

\* updateStatusBar, reading the editor (ed: whether there is one, t and lang
\* its document's text and languageId): the new status-bar text and what was
\* done.
updateStatusBar(ed, t, lang) ==
    IF ~ed
    THEN [text |-> NoFileText, ops |-> <<SetStatus(NoFileText)>>]
    ELSE LET stats == analyzeCode(t, lang)
             line == StatusLine(lang, stats)
         IN [text |-> line, ops |-> <<Called(t, lang), SetStatus(line)>>]

\* Mutant: no check that there is an editor.
showStatsNotificationUnguarded(ed, t, lang) ==
    LET stats == analyzeCode(t, lang)
    IN <<Called(t, lang), Info(StatsMessage(stats))>>

\* showStatsNotification: what was done.
showStatsNotification(ed, t, lang) ==
    IF ~ed
    THEN <<Info(NoFileMessage)>>
    ELSE LET stats == analyzeCode(t, lang)
         IN <<Called(t, lang), Info(StatsMessage(stats))>>

(* Documents of the editor run. *)
EditorTags == {"javascript", "python", "c", "ruby"}
OpenTexts ==
    {<<>>, <<"i", "f", " ", "(", "x", ")", " ", "{">>,
     <<"f", "o", "r", " ", "x", ":">>}
\* What an edit appends to the document.
EditFrags ==
    {<<"i", "f", " ", "(">>, <<"i", "f", " ", "x", ":">>,
     <<"w", "h", "i", "l", "e", "(">>, <<"d", "e", "f", " ", "f", "(">>,
     <<"i", "n", "t", " ", "f", "(", ")", "{">>,
     KwFunction \o <<" ", "f", "(">>}

Init ==
    /\ activated = FALSE
    /\ hasEditor \in BOOLEAN
    /\ docText \in (IF hasEditor THEN OpenTexts ELSE {<<>>})
    /\ docLang \in (IF hasEditor THEN EditorTags ELSE {""})
    /\ statusBarText = ""
    /\ log = <<>>
    /\ lastTrigger = "none"
    /\ text = <<>>
    /\ language = ""
    /\ result = [functions |-> 0, ifs |-> 0, loops |-> 0]
    /\ called = FALSE
    /\ returned = <<>>

\* activate(): the status bar item is created, the handlers are registered,
\* and updateStatusBar() runs once.
Activate ==
    /\ ~activated
    /\ activated' = TRUE
    /\ LET u == updateStatusBar(hasEditor, docText, docLang) IN
         /\ statusBarText' = u.text
         /\ log' = u.ops
    /\ lastTrigger' = "activate"
    /\ UNCHANGED <<hasEditor, docText, docLang>>
    /\ UNCHANGED <<analyzerVars, result, returned>>

\* Mutant: the show statistics command refreshes the status bar as well.
ShowStatsCommandAlsoUpdates ==
    /\ activated
    /\ LET u == updateStatusBar(hasEditor, docText, docLang) IN
         /\ statusBarText' = u.text
         /\ log' = u.ops \o showStatsNotification(hasEditor, docText, docLang)
    /\ lastTrigger' = "showStats"
    /\ UNCHANGED <<activated, hasEditor, docText, docLang>>
    /\ UNCHANGED <<analyzerVars, result, returned>>

\* The command function-counter-extension.showStats.
ShowStatsCommand ==
    /\ activated
    /\ log' = showStatsNotification(hasEditor, docText, docLang)
    /\ lastTrigger' = "showStats"
    /\ UNCHANGED <<activated, hasEditor, docText, docLang, statusBarText>>
    /\ UNCHANGED <<analyzerVars, result, returned>>

\* The command function-counter-extension.refreshStats.
RefreshStatsCommand ==
    /\ activated
    /\ LET u == updateStatusBar(hasEditor, docText, docLang) IN
         /\ statusBarText' = u.text
         /\ log' = u.ops \o <<Info(RefreshedMessage)>>
    /\ lastTrigger' = "refreshStats"
    /\ UNCHANGED <<activated, hasEditor, docText, docLang>>
    /\ UNCHANGED <<analyzerVars, result, returned>>

\* onDidChangeActiveTextEditor: another document, or none, becomes the
\* active one, and updateStatusBar runs.
ActiveEditorChanged ==
    /\ activated
    /\ \E ed \in BOOLEAN :
         \E t \in (IF ed THEN OpenTexts ELSE {<<>>}),
            l \in (IF ed THEN EditorTags ELSE {""}) :
            /\ hasEditor' = ed
            /\ docText' = t
            /\ docLang' = l
            /\ LET u == updateStatusBar(ed, t, l) IN
                 /\ statusBarText' = u.text
                 /\ log' = u.ops
    /\ lastTrigger' = "activeEditorChanged"
    /\ UNCHANGED activated
    /\ UNCHANGED <<analyzerVars, result, returned>>

\* onDidChangeTextDocument for the active document: an edit appends to its
\* text or empties it, and updateStatusBar runs.
TextDocumentChanged ==
    /\ activated
    /\ hasEditor
    /\ \E t \in {docText \o f : f \in EditFrags} \cup {<<>>} :
         /\ Len(t) <= MaxDocLen
         /\ docText' = t
         /\ LET u == updateStatusBar(hasEditor, t, docLang) IN
              /\ statusBarText' = u.text
              /\ log' = u.ops
    /\ lastTrigger' = "textDocumentChanged"
    /\ UNCHANGED <<activated, hasEditor, docLang>>
    /\ UNCHANGED <<analyzerVars, result, returned>>

\* onDidChangeTextDocument for a document that is not the active one (also
\* when there is no active editor): updateStatusBar runs all the same.
OtherDocumentChanged ==
    /\ activated
    /\ LET u == updateStatusBar(hasEditor, docText, docLang) IN
         /\ statusBarText' = u.text
         /\ log' = u.ops
    /\ lastTrigger' = "textDocumentChanged"
    /\ UNCHANGED <<activated, hasEditor, docText, docLang>>
    /\ UNCHANGED <<analyzerVars, result, returned>>

Next ==
    \/ Activate
    \/ ShowStatsCommand
    \/ RefreshStatsCommand
    \/ ActiveEditorChanged
    \/ TextDocumentChanged
    \/ OtherDocumentChanged

Spec == Init /\ [][Next]_vars

----------------------------------------------------------------------------
(* The patterns as relations: s from position i up to, not including,      *)
(* position j is an occurrence of the pattern.  These state what is        *)
(* counted; the matcher above is how the code counts.                      *)

AllIn(s, a, b, set) == \A k \in a..(b - 1) : s[k] \in set
NoneIn(s, a, b, set) == \A k \in a..(b - 1) : s[k] \notin set
StartsToken(s, i) == i = 1 \/ s[i - 1] \notin WordChars
CharAt(s, i, c) == i >= 1 /\ i <= Len(s) /\ s[i] = c

\* identifier, white space, identifier, optional white space, '(', a
\* parameter list closed by the first ')', optional white space, '{'.
BraceFunctionAt(s, i, j) ==
    LET n == Len(s) IN
    /\ StartsToken(s, i)
    /\ \E a \in (i + 1)..n :
         /\ AllIn(s, i, a, WordChars)
         /\ \E b \in (a + 1)..n :
              /\ AllIn(s, a, b, SpaceChars)
              /\ \E c \in (b + 1)..n :
                   /\ AllIn(s, b, c, WordChars)
                   /\ \E d \in c..n :
                        /\ AllIn(s, c, d, SpaceChars)
                        /\ s[d] = "("
                        /\ \E e \in (d + 1)..n :
                             /\ NoneIn(s, d + 1, e, {")"})
                             /\ s[e] = ")"
                             /\ j - 1 > e
                             /\ AllIn(s, e + 1, j - 1, SpaceChars)
                             /\ CharAt(s, j - 1, "{")

\* the keyword function, white space, identifier, optional white space, '('.
KeywordFunctionAt(s, i, j) ==
    LET n == Len(s) IN
    /\ StartsToken(s, i)
    /\ i + 7 <= n
    /\ \A k \in 1..8 : s[i + k - 1] = KwFunction[k]
    /\ \E b \in (i + 9)..n :
         /\ AllIn(s, i + 8, b, SpaceChars)
         /\ \E c \in (b + 1)..n :
              /\ AllIn(s, b, c, WordChars)
              /\ AllIn(s, c, j - 1, SpaceChars)
              /\ j - 1 >= c
              /\ CharAt(s, j - 1, "(")

\* the keyword if, at least one white space, any characters but ':', ':'.
SpacedIfAt(s, i, j) ==
    /\ StartsToken(s, i)
    /\ CharAt(s, i, "i") /\ CharAt(s, i + 1, "f")
    /\ j - 1 >= i + 3
    /\ s[i + 2] \in SpaceChars
    /\ NoneIn(s, i + 2, j - 1, {":"})
    /\ CharAt(s, j - 1, ":")

\* the keyword if, any characters but ':' (none, or starting with any
\* character that ends the keyword), ':'.
BareIfAt(s, i, j) ==
    /\ StartsToken(s, i)
    /\ CharAt(s, i, "i") /\ CharAt(s, i + 1, "f")
    /\ j - 1 >= i + 2
    /\ s[i + 2] \notin WordChars
    /\ NoneIn(s, i + 2, j - 1, {":"})
    /\ CharAt(s, j - 1, ":")

\* The occurrences of a pattern in s, as a set of <<i, j>>.
BraceFunctions(s) ==
    {m \in (1..Len(s)) \X (1..(Len(s) + 1)) : BraceFunctionAt(s, m[1], m[2])}
KeywordFunctions(s) ==
    {m \in (1..Len(s)) \X (1..(Len(s) + 1)) : KeywordFunctionAt(s, m[1], m[2])}
SpacedIfs(s) ==
    {m \in (1..Len(s)) \X (1..(Len(s) + 1)) : SpacedIfAt(s, m[1], m[2])}
BareIfs(s) ==
    {m \in (1..Len(s)) \X (1..(Len(s) + 1)) : BareIfAt(s, m[1], m[2])}

\* The number of non-overlapping occurrences among M taken left to right
\* from position p: the occurrence that starts first is counted, and the
\* count goes on from its end.
RECURSIVE LeftToRight(_, _)
LeftToRight(M, p) ==
    LET later == {m \in M : m[1] >= p} IN
    IF later = {} THEN 0
    ELSE LET first == CHOOSE m \in later :
                        \A o \in later :
                            m[1] < o[1] \/ (m[1] = o[1] /\ m[2] <= o[2])
         IN 1 + LeftToRight(M, first[2])

----------------------------------------------------------------------------
(* Claims about analyzeCode, checked on the analyzer run. *)

Zero == [functions |-> 0, ifs |-> 0, loops |-> 0]

\* C4: analyzeCode returns {0, 0, 0} for the empty text under every tag and
\* for every text under a tag that is not recognized, a case variant of a
\* recognized tag (JavaScript, Python) included.
C4_ZeroOnEmptyOrUnknown ==
    (called /\ (text = <<>> \/ language \notin RecognizedTags))
        => result = Zero

\* A text with constructs was analyzed under a case variant of a recognized
\* tag, and an empty text under a recognized one.
C4_Witness ==
    /\ called
    /\ language = "JavaScript"
    /\ text = KwFunction \o <<" ", "f", "(", ")", "{">>
    /\ result = Zero

\* C5 as stated: under every curly-brace tag, javascript and typescript
\* included, the functions count is the number of occurrences of
\* identifier, white space, identifier, '(', parameters, ')', '{'.
C5_Original ==
    (called /\ language \in CurlyTags)
        => result.functions = LeftToRight(BraceFunctions(text), 1)

\* C5 amended: that pattern is the one of java, csharp, cpp and c; under
\* javascript and typescript the functions count is the number of
\* occurrences of: function, white space, identifier, '('.
C5_FunctionPatternByFamily ==
    called =>
        /\ language \in {"java", "csharp", "cpp", "c"}
              => result.functions = LeftToRight(BraceFunctions(text), 1)
        /\ language \in {"javascript", "typescript"}
              => result.functions = LeftToRight(KeywordFunctions(text), 1)

\* A text with two functions was counted under a brace-pattern tag.
C5_Witness ==
    /\ called
    /\ language = "csharp"
    /\ result.functions = 2

\* C6 as stated: under python the ifs count is the number of occurrences of
\* if followed by any characters but ':' (possibly none, possibly starting
\* with '(') and a ':'.
C6_Original ==
    (called /\ language = "python")
        => result.ifs = LeftToRight(BareIfs(text), 1)

\* C6 amended: the if must be followed by at least one white-space
\* character; if x: is counted, if(x): and if: are not.
C6_PythonIfNeedsSpace ==
    (called /\ language = "python")
        => result.ifs = LeftToRight(SpacedIfs(text), 1)

\* A python text with if x:, elif(y): and if(z): was analyzed: one if.
C6_Witness ==
    /\ called
    /\ language = "python"
    /\ text \in Samples
    /\ BareIfs(text) # SpacedIfs(text)
    /\ result.ifs = 1

\* C7: the literal scenarios give the documented triples.
C7_Scenarios ==
    called =>
        /\ (text = ScenarioJs /\ language = "javascript")
              => result = [functions |-> 1, ifs |-> 1, loops |-> 0]
        /\ (text = ScenarioPy /\ language = "python")
              => result = [functions |-> 1, ifs |-> 1, loops |-> 0]
        /\ (text = ScenarioJava /\ language = "java")
              => result = [functions |-> 0, ifs |-> 0, loops |-> 2]
        /\ (text = ScenarioCpp /\ language = "cpp")
              => result = [functions |-> 1, ifs |-> 0, loops |-> 0]
        /\ (text = ScenarioRuby /\ language = "ruby")
              => result = [functions |-> 0, ifs |-> 0, loops |-> 0]

\* The java scenario was analyzed and its two loops counted.
C7_Witness ==
    /\ called
    /\ text = ScenarioJava
    /\ language = "java"
    /\ result.loops = 2

----------------------------------------------------------------------------
(* Claims about repeated calls, checked on the call history. *)

----------------------------------------------------------------------------
(* Claims about the handlers, checked on the editor run. *)

FourTriggers ==
    {"showStats", "refreshStats", "activeEditorChanged", "textDocumentChanged"}
PassiveTriggers == {"activeEditorChanged", "textDocumentChanged"}

\* The positions of the log where op was done.
OpsAt(l, op) == {k \in 1..Len(l) : l[k].op = op}
\* The positions of the log where statistics or their placeholder were put
\* on a display surface: a status-bar write, or a notification other than
\* the confirmation of the refresh command.
DisplaysAt(l) ==
    {k \in 1..Len(l) :
        \/ l[k].op = "statusBar"
        \/ l[k].op = "info" /\ l[k].arg # "Code statistics refreshed!"}
\* The notifications of the log, in order.
Notifications(l) ==
    LET infos == SelectSeq(l, LAMBDA e : e.op = "info")
    IN [k \in 1..Len(infos) |-> infos[k].arg]

\* C1: once activated, the status bar shows the analysis of the current
\* document under its current tag, in the shape [tag] F: f | If: i | L: l,
\* or the placeholder when there is no active document.
C1_StatusBarCurrent ==
    activated =>
        statusBarText =
            IF hasEditor
            THEN LET r == analyzeCode(docText, docLang) IN
                 "[" \o docLang \o "] Funktsii: " \o ToString(r.functions)
                     \o " | If: " \o ToString(r.ifs)
                     \o " | Tsikly: " \o ToString(r.loops)
            ELSE "Statistika: net aktivnogo faila"

\* An edit gave the active c document its first function and the status bar
\* shows it.
C1_Witness ==
    /\ activated
    /\ hasEditor
    /\ lastTrigger = "textDocumentChanged"
    /\ docLang = "c"
    /\ statusBarText = "[c] Funktsii: 1 | If: 0 | Tsikly: 0"

\* C2: a trigger handled without an active document calls analyzeCode not
\* once; the status-bar update writes the placeholder, and the show
\* statistics command shows the fixed no-file message and nothing else.
C2_NoAnalysisWithoutDocument ==
    (activated /\ ~hasEditor) =>
        /\ OpsAt(log, "analyzeCode") = {}
        /\ lastTrigger = "showStats"
              => log = <<Info("No active code file found")>>
        /\ lastTrigger # "showStats"
              => /\ statusBarText = "Statistika: net aktivnogo faila"
                 /\ log[1] = SetStatus("Statistika: net aktivnogo faila")
                 /\ OpsAt(log, "statusBar") = {1}

\* The show statistics command ran without an active document.
C2_Witness ==
    /\ activated
    /\ ~hasEditor
    /\ lastTrigger = "showStats"
    /\ Notifications(log) = <<"No active code file found">>

\* C3 as stated: every occurrence of each of the four triggers makes
\* exactly one analyzeCode call, followed by exactly one display update.
C3_Original ==
    lastTrigger \in FourTriggers =>
        \E c, d \in 1..Len(log) :
            /\ OpsAt(log, "analyzeCode") = {c}
            /\ DisplaysAt(log) = {d}
            /\ c < d

\* C3 amended: that holds of the occurrences with an active document, the
\* call being on its text and tag; without one the trigger makes no
\* analyzeCode call and one display update, of the placeholder.
C3_OneCallWhenDocumentActive ==
    lastTrigger \in FourTriggers =>
        IF hasEditor
        THEN \E c, d \in 1..Len(log) :
                /\ OpsAt(log, "analyzeCode") = {c}
                /\ log[c].arg = <<docText, docLang>>
                /\ DisplaysAt(log) = {d}
                /\ c < d
        ELSE /\ OpsAt(log, "analyzeCode") = {}
             /\ Cardinality(DisplaysAt(log)) = 1

\* The active editor changed to a document: one call, then one status-bar
\* write.
C3_Witness ==
    /\ lastTrigger = "activeEditorChanged"
    /\ hasEditor
    /\ Len(log) = 2
    /\ log[1].op = "analyzeCode"
    /\ log[2].op = "statusBar"

\* C8 as stated: each of the two commands, invoked with an active document,
\* shows exactly one notification, Code Statistics: f functions, i if
\* statements, l loops; the passive triggers show none.
C8_Original ==
    LET r == analyzeCode(docText, docLang) IN
    /\ (lastTrigger \in {"showStats", "refreshStats"} /\ hasEditor)
          => Notifications(log) =
                <<"Code Statistics: " \o ToString(r.functions)
                    \o " functions, " \o ToString(r.ifs)
                    \o " if statements, " \o ToString(r.loops) \o " loops">>
    /\ lastTrigger \in PassiveTriggers => Notifications(log) = <<>>

\* C8 amended: that notification is the one of the show statistics command;
\* the refresh command shows exactly one notification too, the fixed
\* Code statistics refreshed!; the passive triggers show none.
C8_NotificationPerCommand ==
    LET r == analyzeCode(docText, docLang) IN
    /\ (lastTrigger = "showStats" /\ hasEditor)
          => Notifications(log) =
                <<"Code Statistics: " \o ToString(r.functions)
                    \o " functions, " \o ToString(r.ifs)
                    \o " if statements, " \o ToString(r.loops) \o " loops">>
    /\ lastTrigger = "refreshStats"
          => Notifications(log) = <<"Code statistics refreshed!">>
    /\ lastTrigger \in PassiveTriggers => Notifications(log) = <<>>

\* The show statistics command ran on a python document with one loop.
C8_Witness ==
    /\ lastTrigger = "showStats"
    /\ hasEditor
    /\ docLang = "python"
    /\ Notifications(log) =
          <<"Code Statistics: 0 functions, 0 if statements, 1 loops">>

\* C10: a step of the show statistics command leaves the status-bar text as
\* it was and writes nothing to the status bar.
C10_ShowStatsLeavesStatusBar ==
    [][lastTrigger' = "showStats"
          => (statusBarText' = statusBarText /\ OpsAt(log', "statusBar") = {})]_vars

\* The show statistics command ran with an active document whose statistics
\* the status bar shows.
C10_Witness ==
    /\ lastTrigger = "showStats"
    /\ hasEditor
    /\ statusBarText = "[javascript] Funktsii: 1 | If: 1 | Tsikly: 0"

=============================================================================
